---- MODULE Spec2Model ----
(***************************************************************************)
(* pysui: the BCS transaction schema (sui_types/bcs.py) and the protocol   *)
(* constraint verification of a transaction builder session                *)
(* (sui_pgql/pgql_txn_base.py, _SuiTransactionBase.verify_transaction).    *)
(*                                                                         *)
(* Three specifications share the module:                                  *)
(*   Spec       a builder session: add_input, add_command and              *)
(*              verify_transaction;                                        *)
(*   SpecCodec  serialize / deserialize of schema values;                  *)
(*   SpecTag    TypeTag.type_tag_from, StructTag.from_type_str and         *)
(*              TransactionData.variant_for_index on bounded inputs.       *)
(*                                                                         *)
(* Value representation.  A byte string is a sequence of 0..255.  A text   *)
(* string is a sequence of one-character strings.  A struct value is the   *)
(* sequence of its field values in declaration order.  An enum value is a  *)
(* record [index, value] where value is <<>> for Python's None and         *)
(* <<payload>> otherwise.  An optional is <<>> or <<x>>.                   *)
(***************************************************************************)
EXTENDS Integers, Sequences, FiniteSets, TLC

VARIABLES
    \* --- the builder session (Spec)
    inputs,             \* builder.inputs: ordered dict BuilderArg -> CallArg
    commands,           \* builder.commands: list of Command
    command_frequency,  \* builder.command_frequency: Command kind -> count
    compress_inputs,    \* builder.compress_inputs
    constraints,        \* self.constraints: TransactionConstraints
    current_gas_price,  \* self._current_gas_price
    op,                 \* the last operation called on the session
    ret,                \* what that operation returned (or raised)
    \* --- the codec (SpecCodec)
    c_type, c_val, c_bytes, c_out, c_pc,
    \* --- the text parsers (SpecTag)
    t_in, t_out, t_pc,
    v_call              \* the variant_for_index call made: <<index, outcome>>

session_vars == <<inputs, commands, command_frequency, compress_inputs, constraints,
                  current_gas_price, op, ret>>
codec_vars == <<c_type, c_val, c_bytes, c_out, c_pc>>
tag_vars == <<t_in, t_out, t_pc, v_call>>
vars == <<session_vars, codec_vars, tag_vars>>

\* Python's None as an enum payload / optional content, and a present payload.
None == <<>>
Some(x) == <<x>>

(***************************************************************************)
(* Type descriptors of the codec (canoser): <<kind, ...>>.                 *)
(***************************************************************************)
NoneT == <<"none">>
BoolT == <<"bool">>
StrT == <<"str">>
UintT(nbytes) == <<"uint", nbytes>>
SeqT(t) == <<"seq", t>>
ArrayT(t, fixed_len, encode_len) == <<"array", t, fixed_len, encode_len>>
TupleT(ts) == <<"tuple", ts>>
OptionalT(t) == <<"opt", t>>
StructT(name) == <<"struct", name>>
EnumT(name) == <<"enum", name>>

Uint8 == UintT(1)
Uint16 == UintT(2)
Uint64 == UintT(8)

_ADDRESS_LENGTH == 32
_DIGEST_LENGTH == 32

(***************************************************************************)
(* The schema: _fields of every Struct and _enums of every RustEnum, in    *)
(* declaration order.                                                      *)
(***************************************************************************)
Address_fields == << <<"Address", ArrayT(Uint8, _ADDRESS_LENGTH, FALSE)>> >>

Digest_fields == << <<"Digest", ArrayT(Uint8, _DIGEST_LENGTH, TRUE)>> >>

BuilderArg_enums ==
    << <<"Object", StructT("Address")>>, <<"Pure", SeqT(Uint8)>>,
       <<"ForcedNonUniquePure", NoneT>> >>

ObjectReference_fields ==
    << <<"ObjectID", StructT("Address")>>, <<"SequenceNumber", Uint64>>,
       <<"ObjectDigest", StructT("Digest")>> >>

SharedObjectReference_fields ==
    << <<"ObjectID", StructT("Address")>>, <<"SequenceNumber", Uint64>>,
       <<"Mutable", BoolT>> >>

\* TypeTag._enums as declared: Vector and Struct carry no payload type yet.
TypeTag_enums_declared ==
    << <<"Bool", NoneT>>, <<"U8", NoneT>>, <<"U64", NoneT>>, <<"U128", NoneT>>,
       <<"Address", NoneT>>, <<"Signer", NoneT>>, <<"Vector", NoneT>>,
       <<"Struct", NoneT>>, <<"U16", NoneT>>, <<"U32", NoneT>>, <<"U256", NoneT>> >>

\* TypeTag.update_value_at(index, value): index is 0-based.
update_value_at(enums, index, value) ==
    [enums EXCEPT ![index + 1] = <<enums[index + 1][1], value>>]

\* The table with the Struct slot left as declared: one injection missing.
TypeTag_enums_unpatched ==
    update_value_at(TypeTag_enums_declared, 6, SeqT(EnumT("TypeTag")))

\* TypeTag._enums after the two injections that close the forward reference.
TypeTag_enums ==
    update_value_at(update_value_at(TypeTag_enums_declared, 6, SeqT(EnumT("TypeTag"))),
                    7, StructT("StructTag"))

StructTag_fields ==
    << <<"address", StructT("Address")>>, <<"module", StrT>>, <<"name", StrT>>,
       <<"type_parameters", SeqT(EnumT("TypeTag"))>> >>

ObjectArg_enums ==
    << <<"ImmOrOwnedObject", StructT("ObjectReference")>>,
       <<"SharedObject", StructT("SharedObjectReference")>> >>

CallArg_enums == << <<"Pure", SeqT(Uint8)>>, <<"Object", EnumT("ObjectArg")>> >>

GasData_fields ==
    << <<"Payment", SeqT(StructT("ObjectReference"))>>, <<"Owner", StructT("Address")>>,
       <<"Price", Uint64>>, <<"Budget", Uint64>> >>

Argument_enums ==
    << <<"GasCoin", NoneT>>, <<"Input", Uint16>>, <<"Result", Uint16>>,
       <<"NestedResult", TupleT(<<Uint16, Uint16>>)>> >>

OptionalTypeTag_type == OptionalT(EnumT("TypeTag"))

ProgrammableMoveCall_fields ==
    << <<"Package", StructT("Address")>>, <<"Module", StrT>>, <<"Function", StrT>>,
       <<"Type_Arguments", SeqT(EnumT("TypeTag"))>>,
       <<"Arguments", SeqT(EnumT("Argument"))>> >>

TransferObjects_fields ==
    << <<"Objects", SeqT(EnumT("Argument"))>>, <<"Address", EnumT("Argument")>> >>

SplitCoin_fields ==
    << <<"FromCoin", EnumT("Argument")>>, <<"Amount", SeqT(EnumT("Argument"))>> >>

MergeCoins_fields ==
    << <<"ToCoin", EnumT("Argument")>>, <<"FromCoins", SeqT(EnumT("Argument"))>> >>

Publish_fields ==
    << <<"Modules", SeqT(SeqT(Uint8))>>, <<"Dependents", SeqT(StructT("Address"))>> >>

MakeMoveVec_fields ==
    << <<"TypeTag", OptionalTypeTag_type>>, <<"Vector", SeqT(EnumT("Argument"))>> >>

Upgrade_fields ==
    << <<"Modules", SeqT(SeqT(Uint8))>>, <<"Dependents", SeqT(StructT("Address"))>>,
       <<"Package", StructT("Address")>>, <<"UpgradeTicket", EnumT("Argument")>> >>

Command_enums ==
    << <<"MoveCall", StructT("ProgrammableMoveCall")>>,
       <<"TransferObjects", StructT("TransferObjects")>>,
       <<"SplitCoin", StructT("SplitCoin")>>,
       <<"MergeCoins", StructT("MergeCoins")>>,
       <<"Publish", StructT("Publish")>>,
       <<"MakeMoveVec", StructT("MakeMoveVec")>>,
       <<"Upgrade", StructT("Upgrade")>> >>

ProgrammableTransaction_fields ==
    << <<"Inputs", SeqT(EnumT("CallArg"))>>, <<"Command", SeqT(EnumT("Command"))>> >>

TransactionKind_enums ==
    << <<"ProgrammableTransaction", StructT("ProgrammableTransaction")>>,
       <<"ChangeEpoch", NoneT>>, <<"Genesis", NoneT>>,
       <<"ConsensusCommitPrologue", NoneT>> >>

TransactionExpiration_enums == << <<"None", NoneT>>, <<"Epoch", Uint64>> >>

TransactionDataV1_fields ==
    << <<"TransactionKind", EnumT("TransactionKind")>>, <<"Sender", StructT("Address")>>,
       <<"GasData", StructT("GasData")>>,
       <<"TransactionExpiration", EnumT("TransactionExpiration")>> >>

TransactionData_enums == << <<"V1", StructT("TransactionDataV1")>> >>

\* The class registry: a struct's _fields and an enum's _enums by class name.
FieldsOf(name) ==
    CASE name = "Address" -> Address_fields
      [] name = "Digest" -> Digest_fields
      [] name = "ObjectReference" -> ObjectReference_fields
      [] name = "SharedObjectReference" -> SharedObjectReference_fields
      [] name = "StructTag" -> StructTag_fields
      [] name = "GasData" -> GasData_fields
      [] name = "ProgrammableMoveCall" -> ProgrammableMoveCall_fields
      [] name = "TransferObjects" -> TransferObjects_fields
      [] name = "SplitCoin" -> SplitCoin_fields
      [] name = "MergeCoins" -> MergeCoins_fields
      [] name = "Publish" -> Publish_fields
      [] name = "MakeMoveVec" -> MakeMoveVec_fields
      [] name = "Upgrade" -> Upgrade_fields
      [] name = "ProgrammableTransaction" -> ProgrammableTransaction_fields
      [] name = "TransactionDataV1" -> TransactionDataV1_fields

EnumsOf(name) ==
    CASE name = "BuilderArg" -> BuilderArg_enums
      [] name = "TypeTag" -> TypeTag_enums
      [] name = "ObjectArg" -> ObjectArg_enums
      [] name = "CallArg" -> CallArg_enums
      [] name = "Argument" -> Argument_enums
      [] name = "Command" -> Command_enums
      [] name = "TransactionKind" -> TransactionKind_enums
      [] name = "TransactionExpiration" -> TransactionExpiration_enums
      [] name = "TransactionData" -> TransactionData_enums

(***************************************************************************)
(* The codec engine (canoser): serialize and deserialize by type.          *)
(***************************************************************************)
RECURSIVE uleb128(_)
\* Uint32.serialize_uint32_as_uleb128: 7 bits per byte, low group first.
uleb128(n) ==
    IF n < 128 THEN <<n>> ELSE <<(n % 128) + 128>> \o uleb128(n \div 128)

RECURSIVE little_endian(_, _)
\* int.to_bytes(nbytes, "little"): the nbytes low bytes of v, low byte first.
little_endian(v, nbytes) ==
    IF nbytes = 0 THEN <<>> ELSE <<v % 256>> \o little_endian(v \div 256, nbytes - 1)

RECURSIVE from_little_endian(_)
\* int.from_bytes(bytes, "little").
from_little_endian(bytes) ==
    IF bytes = <<>> THEN 0 ELSE bytes[1] + 256 * from_little_endian(Tail(bytes))

\* The index of the variant called name in an _enums table (0-based), or -1.
get_index(enums, name) ==
    IF \E i \in 1..Len(enums) : enums[i][1] = name
    THEN (CHOOSE i \in 1..Len(enums) :
              enums[i][1] = name /\ \A j \in 1..(i - 1) : enums[j][1] # name) - 1
    ELSE -1

\* cls(name, value): the enum value of the named variant.
Enum(cls, name, value) == [index |-> get_index(EnumsOf(cls), name), value |-> value]

\* enum.enum_name
enum_name(cls, e) == EnumsOf(cls)[e.index + 1][1]

RECURSIVE Encode(_, _)
RECURSIVE EncodeEach(_, _)
RECURSIVE EncodeFields(_, _, _)
RECURSIVE EncodeTuple(_, _, _)

\* The concatenated encodings of the elements of a sequence; a sequence of
\* Uint8 is its own encoding, byte for byte.
EncodeEach(t, vs) ==
    IF vs = <<>> THEN <<>>
    ELSE IF t = Uint8 THEN vs
    ELSE Encode(t, Head(vs)) \o EncodeEach(t, Tail(vs))

\* Struct.encode: the fields from the i-th on, in declared order, no padding.
EncodeFields(fields, v, i) ==
    IF i > Len(fields) THEN <<>>
    ELSE Encode(fields[i][2], v[i]) \o EncodeFields(fields, v, i + 1)

EncodeTuple(ts, v, i) ==
    IF i > Len(ts) THEN <<>> ELSE Encode(ts[i], v[i]) \o EncodeTuple(ts, v, i + 1)

\* TypeFactory.encode(type, value)
Encode(t, v) ==
    CASE t[1] = "none" -> <<>>
      [] t[1] = "bool" -> IF v THEN <<1>> ELSE <<0>>
      [] t[1] = "uint" -> little_endian(v, t[2])
      [] t[1] = "str" -> uleb128(Len(v)) \o v
      [] t[1] = "seq" -> uleb128(Len(v)) \o EncodeEach(t[2], v)
      [] t[1] = "array" ->
            (IF t[4] THEN uleb128(Len(v)) ELSE <<>>) \o EncodeEach(t[2], v)
      [] t[1] = "tuple" -> EncodeTuple(t[2], v, 1)
      [] t[1] = "opt" -> IF v = None THEN <<0>> ELSE <<1>> \o Encode(t[2], v[1])
      [] t[1] = "struct" -> EncodeFields(FieldsOf(t[2]), v, 1)
      [] t[1] = "enum" ->
            LET value_type == EnumsOf(t[2])[v.index + 1][2]
            IN  uleb128(v.index) \o
                (IF value_type = NoneT THEN <<>> ELSE Encode(value_type, v.value[1]))

\* The result of a decode: the value and the bytes left, or a failure.
Decoded(val, rest) == [ok |-> TRUE, val |-> <<val>>, rest |-> rest]
DecodeError == [ok |-> FALSE, val |-> <<>>, rest |-> <<>>]

RECURSIVE parse_uleb128(_)
\* Uint32.parse_uint32_from_uleb128
parse_uleb128(bytes) ==
    IF bytes = <<>> THEN DecodeError
    ELSE IF bytes[1] < 128 THEN Decoded(bytes[1], Tail(bytes))
    ELSE LET more == parse_uleb128(Tail(bytes))
         IN  IF more.ok THEN Decoded((bytes[1] - 128) + 128 * more.val[1], more.rest)
             ELSE DecodeError

RECURSIVE Decode(_, _)
RECURSIVE DecodeEach(_, _, _)
RECURSIVE DecodeFields(_, _, _)
RECURSIVE DecodeTuple(_, _, _)

\* n elements of type t read from bytes, in order.
DecodeEach(t, n, bytes) ==
    IF n = 0 THEN Decoded(<<>>, bytes)
    ELSE IF t = Uint8
    THEN IF Len(bytes) < n THEN DecodeError
         ELSE Decoded(SubSeq(bytes, 1, n), SubSeq(bytes, n + 1, Len(bytes)))
    ELSE LET first == Decode(t, bytes)
         IN  IF ~first.ok THEN DecodeError
             ELSE LET others == DecodeEach(t, n - 1, first.rest)
                  IN  IF ~others.ok THEN DecodeError
                      ELSE Decoded(<<first.val[1]>> \o others.val[1], others.rest)

\* Struct.decode: the fields from the i-th on.
DecodeFields(fields, i, bytes) ==
    IF i > Len(fields) THEN Decoded(<<>>, bytes)
    ELSE LET first == Decode(fields[i][2], bytes)
         IN  IF ~first.ok THEN DecodeError
             ELSE LET others == DecodeFields(fields, i + 1, first.rest)
                  IN  IF ~others.ok THEN DecodeError
                      ELSE Decoded(<<first.val[1]>> \o others.val[1], others.rest)

DecodeTuple(ts, i, bytes) ==
    IF i > Len(ts) THEN Decoded(<<>>, bytes)
    ELSE LET first == Decode(ts[i], bytes)
         IN  IF ~first.ok THEN DecodeError
             ELSE LET others == DecodeTuple(ts, i + 1, first.rest)
                  IN  IF ~others.ok THEN DecodeError
                      ELSE Decoded(<<first.val[1]>> \o others.val[1], others.rest)

\* TypeFactory.decode(type, cursor)
Decode(t, bytes) ==
    CASE t[1] = "none" -> Decoded(None, bytes)
      [] t[1] = "bool" ->
            IF bytes = <<>> \/ bytes[1] > 1 THEN DecodeError
            ELSE Decoded(bytes[1] = 1, Tail(bytes))
      [] t[1] = "uint" ->
            IF Len(bytes) < t[2] THEN DecodeError
            ELSE Decoded(from_little_endian(SubSeq(bytes, 1, t[2])),
                         SubSeq(bytes, t[2] + 1, Len(bytes)))
      [] t[1] = "str" ->
            LET n == parse_uleb128(bytes)
            IN  IF ~n.ok \/ Len(n.rest) < n.val[1] THEN DecodeError
                ELSE Decoded(SubSeq(n.rest, 1, n.val[1]),
                             SubSeq(n.rest, n.val[1] + 1, Len(n.rest)))
      [] t[1] = "seq" ->
            LET n == parse_uleb128(bytes)
            IN  IF ~n.ok THEN DecodeError ELSE DecodeEach(t[2], n.val[1], n.rest)
      [] t[1] = "array" ->
            IF t[4]
            THEN LET n == parse_uleb128(bytes)
                 IN  IF ~n.ok \/ n.val[1] # t[3] THEN DecodeError
                     ELSE DecodeEach(t[2], t[3], n.rest)
            ELSE DecodeEach(t[2], t[3], bytes)
      [] t[1] = "tuple" -> DecodeTuple(t[2], 1, bytes)
      [] t[1] = "opt" ->
            IF bytes = <<>> \/ bytes[1] > 1 THEN DecodeError
            ELSE IF bytes[1] = 0 THEN Decoded(None, Tail(bytes))
            ELSE LET x == Decode(t[2], Tail(bytes))
                 IN  IF ~x.ok THEN DecodeError ELSE Decoded(Some(x.val[1]), x.rest)
      [] t[1] = "struct" -> DecodeFields(FieldsOf(t[2]), 1, bytes)
      [] t[1] = "enum" ->
            LET n == parse_uleb128(bytes)
            IN  IF ~n.ok \/ n.val[1] >= Len(EnumsOf(t[2])) THEN DecodeError
                ELSE LET value_type == EnumsOf(t[2])[n.val[1] + 1][2]
                     IN  IF value_type = NoneT
                         THEN Decoded([index |-> n.val[1], value |-> None], n.rest)
                         ELSE LET x == Decode(value_type, n.rest)
                              IN  IF ~x.ok THEN DecodeError
                                  ELSE Decoded([index |-> n.val[1],
                                                value |-> Some(x.val[1])], x.rest)

\* obj.serialize()
serialize(t, v) == Encode(t, v)

\* cls.deserialize(bytes): the whole input must be consumed.
deserialize(t, bytes) ==
    LET d == Decode(t, bytes)
    IN  IF d.ok /\ d.rest = <<>> THEN d ELSE DecodeError

(***************************************************************************)
(* Sample values the sessions are built from.                              *)
(***************************************************************************)
\* Address.from_str("0x<n>"): hexstring_to_list left-pads to 32 bytes.
AddressOf(n) == << [i \in 1.._ADDRESS_LENGTH |-> IF i = _ADDRESS_LENGTH THEN n ELSE 0] >>

\* Digest.from_str("ByumsdYUAQWJfwYgowsme7hm5vE8d2mXik3rGaNC9R4W"): its base58 value.
PlaceholderDigest ==
    << <<163, 41, 16, 226, 59, 116, 154, 103, 136, 218, 242, 145, 9, 149, 86, 90,
         228, 102, 19, 213, 232, 9, 101, 120, 210, 202, 186, 113, 48, 173, 39, 251>> >>

\* _SuiTransactionBase._PAY_GAS
_PAY_GAS == 4000000

\* The gas price the client reports when the session is constructed.
ClientGasPrice == 1000

\* An Argument referring to input i.
InputArgument(i) == Enum("Argument", "Input", Some(i))

\* n Arguments, Input(0) .. Input(n-1).
Arguments(n) == [i \in 1..n |-> InputArgument(i - 1)]

\* n compiled modules of one byte each.
Modules(n) == [i \in 1..n |-> <<i>>]

\* n type arguments.
TypeArguments(n) == [i \in 1..n |-> Enum("TypeTag", "U8", None)]

\* Commands by kind: args is the length of the counted field, targs of Type_Arguments.
MakeCommand(kind, args, targs) ==
    CASE kind = "MoveCall" ->
            Enum("Command", kind,
                 Some(<<AddressOf(2), <<109>>, <<102>>, TypeArguments(targs), Arguments(args)>>))
      [] kind = "TransferObjects" ->
            Enum("Command", kind, Some(<<Arguments(args), InputArgument(0)>>))
      [] kind = "SplitCoin" ->
            Enum("Command", kind, Some(<<Enum("Argument", "GasCoin", None), Arguments(args)>>))
      [] kind = "MergeCoins" ->
            Enum("Command", kind, Some(<<Enum("Argument", "GasCoin", None), Arguments(args)>>))
      [] kind = "Publish" ->
            Enum("Command", kind, Some(<<Modules(args), <<AddressOf(1), AddressOf(2)>> >>))
      [] kind = "MakeMoveVec" ->
            Enum("Command", kind, Some(<<Some(Enum("TypeTag", "U64", None)), Arguments(args)>>))
      [] kind = "Upgrade" ->
            Enum("Command", kind,
                 Some(<<Modules(args), <<AddressOf(1)>>, AddressOf(3),
                        Enum("Argument", "Result", Some(0))>>))

\* The commands a session may add.
SampleCommands ==
    << MakeCommand("MoveCall", 1, 2), MakeCommand("MoveCall", 2, 1),
       MakeCommand("MoveCall", 3, 3), MakeCommand("TransferObjects", 2, 0),
       MakeCommand("SplitCoin", 3, 0), MakeCommand("MergeCoins", 2, 0),
       MakeCommand("Publish", 3, 0), MakeCommand("MakeMoveVec", 2, 0),
       MakeCommand("Upgrade", 3, 0) >>

\* The pure values (already BCS-encoded bytes) a session may add.
SamplePures == { <<7>>, <<8>>, <<7, 8>> }

\* The pure values a session may add wrapped as ForcedNonUniquePure.
SampleForced == { <<7>> }

\* The objects a session may add, by the last byte of their id.
SampleObjects == { 1 }

\* The pre-serialized transaction bytes a caller may hand to verify_transaction.
SampleSerKinds == { <<>>, <<0, 0, 0>> }

CommandKinds == { Command_enums[i][1] : i \in 1..Len(Command_enums) }

LimitNames ==
    { "max_pure_argument_size", "max_input_objects", "max_arguments",
      "max_type_arguments", "max_num_transferred_move_object_ids",
      "max_programmable_tx_commands", "max_tx_size_bytes" }

\* For every limit, a value the sample sessions can exceed and one they cannot.
LowLimit ==
    [ max_pure_argument_size |-> 2, max_input_objects |-> 1, max_arguments |-> 1,
      max_type_arguments |-> 1, max_num_transferred_move_object_ids |-> 3,
      max_programmable_tx_commands |-> 1, max_tx_size_bytes |-> 2 ]

HighLimit ==
    [ max_pure_argument_size |-> 16, max_input_objects |-> 16, max_arguments |-> 16,
      max_type_arguments |-> 16, max_num_transferred_move_object_ids |-> 16,
      max_programmable_tx_commands |-> 16, max_tx_size_bytes |-> 200 ]

\* How many inputs and commands together a session holds at most.
MaxItems == 2

\* The constraint tables a session may be constructed with: all limits high or
\* all low, but for one at most.
ConstraintTables ==
    { [n \in LimitNames |-> IF n \in low THEN LowLimit[n] ELSE HighLimit[n]] :
        low \in { l \in SUBSET LimitNames :
                     \/ \A a, b \in l : a = b
                     \/ \A a, b \in LimitNames \ l : a = b } }

(***************************************************************************)
(* The transaction builder (ProgrammableTransactionBuilder).               *)
(***************************************************************************)
\* A hash of the key's content, hash(str(self)), instead of its identity.
BuilderArg_hash_content(key) == <<key.index, key.value>>

\* BuilderArg.__hash__: the identity of the key object.
BuilderArg_hash(key) == key.id

\* RustEnum.__eq__: same variant and same payload.
BuilderArg_eq(a, b) == a.index = b.index /\ a.value = b.value

\* inputs[key] = arg on the ordered dict: an equal key keeps its slot.
dict_set(d, key, arg) ==
    IF \E i \in 1..Len(d) :
           BuilderArg_hash(d[i].key) = BuilderArg_hash(key) /\ BuilderArg_eq(d[i].key, key)
    THEN LET i == CHOOSE i \in 1..Len(d) :
                      BuilderArg_hash(d[i].key) = BuilderArg_hash(key)
                      /\ BuilderArg_eq(d[i].key, key)
         IN  [d EXCEPT ![i].arg = arg]
    ELSE Append(d, [key |-> key, arg |-> arg])

\* The BuilderArg key a value is wrapped in; id is the new object's identity.
BuilderArg(id, name, value) ==
    [id |-> id, index |-> get_index(BuilderArg_enums, name), value |-> Some(value)]

\* The CallArg stored for a key: Pure bytes, or an owned object reference.
CallArgFor(name, value) ==
    IF name = "Object"
    THEN Enum("CallArg", "Object",
              Some(Enum("ObjectArg", "ImmOrOwnedObject",
                        Some(<<value, 1, PlaceholderDigest>>))))
    ELSE Enum("CallArg", "Pure", Some(value))

\* The slots (1-based) holding a Pure key whose encoded content equals value's.
SameContentSlots(d, value) ==
    { i \in 1..Len(d) :
        /\ enum_name("BuilderArg", d[i].key) = "Pure"
        /\ serialize(SeqT(Uint8), d[i].key.value[1]) = serialize(SeqT(Uint8), value) }

Min(S) == CHOOSE x \in S : \A y \in S : x <= y
Max(S) == CHOOSE x \in S : \A y \in S : x >= y

\* id() of a newly created key: an identity no live key of the dict has.
NewId(d) == Min({ n \in 0..Len(d) : \A i \in 1..Len(d) : d[i].key.id # n })

\* What an operation hands back: a value, or the exception it raised.
Returned(value) == [value |-> Some(value), raised |-> ""]
Raised(error) == [value |-> None, raised |-> error]

\* add_input(value) -> Argument.Input(index)
add_input(name, value) ==
    /\ LET key == BuilderArg(NewId(inputs), name, value)
           out_index == Len(inputs)
           same == SameContentSlots(inputs, value)
       IN  IF name = "Pure" /\ compress_inputs /\ same # {}
           THEN /\ inputs' = inputs
                /\ ret' = Returned(InputArgument(Min(same) - 1))
           ELSE /\ Len(inputs) + Len(commands) < MaxItems
                /\ inputs' = dict_set(inputs, key, CallArgFor(name, value))
                /\ ret' = Returned(InputArgument(out_index))
    /\ op' = <<"add_input", name, value>>
    /\ UNCHANGED <<commands, command_frequency, compress_inputs, constraints,
                   current_gas_price>>

\* add_command(command) -> Argument.Result(index)
add_command(command) ==
    /\ Len(inputs) + Len(commands) < MaxItems
    /\ commands' = Append(commands, command)
    /\ command_frequency' =
           [command_frequency EXCEPT ![enum_name("Command", command)] = @ + 1]
    /\ ret' = Returned(Enum("Argument", "Result", Some(Len(commands))))
    /\ op' = <<"add_command", enum_name("Command", command), None>>
    /\ UNCHANGED <<inputs, compress_inputs, constraints, current_gas_price>>

\* builder.finish_for_inspect(): the inputs in insertion order and the commands.
finish_for_inspect ==
    Enum("TransactionKind", "ProgrammableTransaction",
         Some(<<[i \in 1..Len(inputs) |-> inputs[i].arg], commands>>))

\* raw_kind()
raw_kind == finish_for_inspect

(***************************************************************************)
(* _SuiTransactionBase.verify_transaction                                  *)
(***************************************************************************)
\* TransactionConstraints(): every limit field 0.
TransactionConstraints_default == [n \in LimitNames |-> 0]

RECURSIVE max_pure_inputs_sum(_, _, _)
\* The loop adding the Pure lengths up instead of keeping the largest.
max_pure_inputs_sum(d, i, max_pure_inputs) ==
    IF i > Len(d) THEN max_pure_inputs
    ELSE IF enum_name("BuilderArg", d[i].key) = "Pure"
         THEN max_pure_inputs_sum(d, i + 1, max_pure_inputs + Len(d[i].key.value[1]))
         ELSE max_pure_inputs_sum(d, i + 1, max_pure_inputs)

RECURSIVE max_pure_inputs_from(_, _, _)
\* The loop over builder.inputs.keys() from slot i on: the running maximum of
\* len(i_key.value) over the Pure keys.
max_pure_inputs_from(d, i, max_pure_inputs) ==
    IF i > Len(d) THEN max_pure_inputs
    ELSE IF enum_name("BuilderArg", d[i].key) = "Pure"
         THEN LET ilen == Len(d[i].key.value[1])
              IN  max_pure_inputs_from(d, i + 1,
                      IF ilen > max_pure_inputs THEN ilen ELSE max_pure_inputs)
         ELSE max_pure_inputs_from(d, i + 1, max_pure_inputs)

\* The same loop's obj_inputs: every key that is not Pure.
obj_inputs_of(d) ==
    SelectSeq([i \in 1..Len(d) |-> d[i].key],
              LAMBDA k : enum_name("BuilderArg", k) # "Pure")

\* The field of a struct value by name.
Field(struct, v, name) ==
    v[CHOOSE i \in 1..Len(FieldsOf(struct)) : FieldsOf(struct)[i][1] = name]

\* args_one of a command: the match on prog_txn.enum_name.
args_one_of(prog_txn) ==
    LET name == enum_name("Command", prog_txn)
        value == prog_txn.value[1]
    IN  CASE name = "MoveCall" -> Len(Field("ProgrammableMoveCall", value, "Arguments"))
          [] name = "TransferObjects" -> Len(Field("TransferObjects", value, "Objects"))
          [] name = "MergeCoins" -> Len(Field("MergeCoins", value, "FromCoins"))
          [] name = "SplitCoin" -> Len(Field("SplitCoin", value, "Amount"))
          [] name = "MakeMoveVec" -> Len(Field("MakeMoveVec", value, "Vector"))
          [] name = "Publish" -> Len(Field("Publish", value, "Modules"))
          [] name = "Upgrade" -> Len(Field("Upgrade", value, "Modules"))
          [] OTHER -> 0

\* type_args_one of a command.
type_args_one_of(prog_txn) ==
    IF enum_name("Command", prog_txn) = "MoveCall"
    THEN Len(Field("ProgrammableMoveCall", prog_txn.value[1], "Type_Arguments"))
    ELSE 0

\* The loop body keeping the largest offending count instead of the last.
check_command_largest(cons, acc, prog_txn) ==
    LET args_one == args_one_of(prog_txn)
        type_args_one == type_args_one_of(prog_txn)
    IN  [ max_arguments |->
              IF args_one > cons.max_arguments /\ args_one > acc.max_arguments
              THEN args_one ELSE acc.max_arguments,
          max_type_arguments |->
              IF type_args_one > cons.max_type_arguments
                 /\ type_args_one > acc.max_type_arguments
              THEN type_args_one ELSE acc.max_type_arguments,
          total_args |-> acc.total_args + args_one ]

\* One pass of the loop body over a command: the slots of result_err it sets
\* and the running total.
check_command(cons, acc, prog_txn) ==
    LET args_one == args_one_of(prog_txn)
        type_args_one == type_args_one_of(prog_txn)
    IN  [ max_arguments |->
              IF args_one > cons.max_arguments THEN args_one ELSE acc.max_arguments,
          max_type_arguments |->
              IF type_args_one > cons.max_type_arguments THEN type_args_one
              ELSE acc.max_type_arguments,
          total_args |-> acc.total_args + args_one ]

RECURSIVE check_arguments(_, _, _, _)
\* The loop over builder.commands from position i on, in sequence order.
check_arguments(cons, cmds, i, acc) ==
    IF i > Len(cmds) THEN acc
    ELSE check_arguments(cons, cmds, i + 1, check_command(cons, acc, cmds[i]))

\* The placeholder TransactionData built when no bytes were handed in.
faux_txdata(kind, gas_price) ==
    LET reuse_addy == AddressOf(0)
    IN  Enum("TransactionData", "V1",
             Some(<< kind, reuse_addy,
                     << <<  <<reuse_addy, 0, PlaceholderDigest>>  >>,
                        reuse_addy, gas_price, _PAY_GAS >>,
                     Enum("TransactionExpiration", "None", None) >>))

\* ser_kind after the "if not ser_kind" block: None and empty bytes are both
\* falsy and replaced by the placeholder's serialization.
ser_kind_used(ser_kind, kind, gas_price) ==
    IF ser_kind = None \/ ser_kind[1] = <<>>
    THEN serialize(EnumT("TransactionData"), faux_txdata(kind, gas_price))
    ELSE ser_kind[1]

\* The record with every limit field kept, zero or not.
err_dict_of_unfiltered(result_err) == { <<n, result_err[n]>> : n \in LimitNames }

\* vars(result_err) filtered by y != 0, feature_dict popped: name -> value pairs.
err_dict_of(result_err) ==
    LET var_map == { <<n, Some(result_err[n])>> : n \in LimitNames }
                       \cup { <<"feature_dict", None>> }
        kept == { p \in var_map : p[2] # Some(0) }
        popped == { p \in kept : p[1] # "feature_dict" }
    IN  { <<p[1], p[2][1]>> : p \in popped }

\* The pair with err_dict returned as it is, empty or not.
verify_result_always_dict(cons, err_dict) == <<cons, Some(err_dict)>>

\* The returned pair: the session's constraints and err_dict, or None for an
\* empty err_dict.
verify_result(cons, err_dict) ==
    <<cons, IF err_dict # {} THEN Some(err_dict) ELSE None>>

\* The attributes an instance of _SuiTransactionBase has.
SessionAttributes ==
    { "builder", "client", "_sig_block", "_merge_gas", "_executed", "constraints",
      "_current_gas_price" }

\* result_err when the call reaches its last statement: TransactionConstraints()
\* with the field of every limit found violated set to the observed value.
result_err_of(ser_kind) ==
    LET max_pure_inputs == max_pure_inputs_from(inputs, 1, 0)
        obj_count == Len(obj_inputs_of(inputs)) + command_frequency["MoveCall"]
        looped == check_arguments(constraints, commands, 1,
                      [max_arguments |-> 0, max_type_arguments |-> 0, total_args |-> 0])
        too_many_commands == Len(commands) > constraints.max_programmable_tx_commands
        used == ser_kind_used(ser_kind, raw_kind, current_gas_price)
        unset == TransactionConstraints_default
    IN  [ max_pure_argument_size |->
              IF max_pure_inputs >= constraints.max_pure_argument_size
              THEN max_pure_inputs ELSE unset.max_pure_argument_size,
          max_input_objects |->
              IF obj_count > constraints.max_input_objects
              THEN obj_count ELSE unset.max_input_objects,
          max_arguments |-> looped.max_arguments,
          max_type_arguments |-> looped.max_type_arguments,
          max_num_transferred_move_object_ids |->
              IF looped.total_args > constraints.max_num_transferred_move_object_ids
              THEN looped.total_args ELSE unset.max_num_transferred_move_object_ids,
          \* len(self.commands) is only evaluated when there are too many
          max_programmable_tx_commands |->
              IF too_many_commands THEN Len(commands)
              ELSE unset.max_programmable_tx_commands,
          max_tx_size_bytes |->
              IF Len(used) > constraints.max_tx_size_bytes
              THEN Len(used) ELSE unset.max_tx_size_bytes ]

\* verify_transaction(ser_kind): what the call returns or raises.
verify_transaction(ser_kind) ==
    LET too_many_commands == Len(commands) > constraints.max_programmable_tx_commands
        err_dict == err_dict_of(result_err_of(ser_kind))
    IN  IF too_many_commands /\ "commands" \notin SessionAttributes
        THEN Raised("AttributeError")
        ELSE Returned(verify_result(constraints, err_dict))

\* self.constraints with the violations written into it, as if result_err
\* were the session's table itself.
constraints_written_by_verify(cons, result_err) ==
    [n \in LimitNames |-> IF result_err[n] # 0 THEN result_err[n] ELSE cons[n]]

\* self.constraints after the call: result_err is a table of its own, made by
\* TransactionConstraints(), and every assignment of the call goes to it;
\* self.constraints is only read.
constraints_after_verify(cons, result_err) == cons

\* A call of verify_transaction on the session.
VerifyTransaction(ser_kind) ==
    /\ ret' = verify_transaction(ser_kind)
    /\ op' = <<"verify_transaction", "", ser_kind>>
    /\ constraints' = constraints_after_verify(constraints, result_err_of(ser_kind))
    /\ UNCHANGED <<inputs, commands, command_frequency, compress_inputs,
                   current_gas_price>>

\* The parts of the state a specification does not use.
IdleCodec ==
    c_type = NoneT /\ c_val = None /\ c_bytes = <<>> /\ c_out = DecodeError /\ c_pc = "idle"
IdleTag == t_in = <<>> /\ t_out = None /\ t_pc = "idle" /\ v_call = None
IdleSession ==
    /\ inputs = <<>> /\ commands = <<>>
    /\ command_frequency = [k \in CommandKinds |-> 0]
    /\ compress_inputs = TRUE
    /\ constraints = HighLimit
    /\ current_gas_price = ClientGasPrice
    /\ op = <<"__init__", "", None>>
    /\ ret = Returned(None)

\* _SuiTransactionBase.__init__: an empty builder and the client's constraints.
Init ==
    /\ inputs = <<>>
    /\ commands = <<>>
    /\ command_frequency = [k \in CommandKinds |-> 0]
    /\ compress_inputs \in BOOLEAN
    /\ constraints \in ConstraintTables
    /\ current_gas_price = ClientGasPrice
    /\ op = <<"__init__", "", None>>
    /\ ret = Returned(None)
    /\ IdleCodec
    /\ IdleTag

Next ==
    \/ \E v \in SamplePures : add_input("Pure", v) /\ UNCHANGED <<codec_vars, tag_vars>>
    \/ \E v \in SampleForced :
           add_input("ForcedNonUniquePure", v) /\ UNCHANGED <<codec_vars, tag_vars>>
    \/ \E n \in SampleObjects :
           add_input("Object", AddressOf(n)) /\ UNCHANGED <<codec_vars, tag_vars>>
    \/ \E i \in 1..Len(SampleCommands) :
           add_command(SampleCommands[i]) /\ UNCHANGED <<codec_vars, tag_vars>>
    \/ \E b \in {None} \cup { Some(x) : x \in SampleSerKinds } :
           VerifyTransaction(b) /\ UNCHANGED <<codec_vars, tag_vars>>

Spec == Init /\ [][Next]_vars

(***************************************************************************)
(* SpecCodec: a schema value is serialized, and the bytes deserialized.    *)
(***************************************************************************)
\* How deep the sampled TypeTags nest.
MaxTagDepth == 2

U16Samples == << 0, 1, 300 >>
U64Samples == << 0, 1000 >>

\* The sequence of f(x) for the elements x of a sequence.
Each(seq, f(_)) == [i \in 1..Len(seq) |-> f(seq[i])]

ScalarTags ==
    Each(<< "Bool", "U8", "U64", "U128", "Address", "Signer", "U16", "U32", "U256" >>,
         LAMBDA n : Enum("TypeTag", n, None))

\* A Struct TypeTag 0x2::sui::SUI with the given type parameters.
StructTagOf(type_parameters) ==
    Enum("TypeTag", "Struct",
         Some(<<AddressOf(2), <<115, 117, 105>>, <<83, 85, 73>>, type_parameters>>))

RECURSIVE TypeTagsOf(_)
\* The TypeTags nesting Vector and Struct to the given depth.
TypeTagsOf(depth) ==
    IF depth = 0 THEN ScalarTags
    ELSE LET inner == TypeTagsOf(depth - 1)
         IN  ScalarTags
             \o Each(inner, LAMBDA t : Enum("TypeTag", "Vector", Some(<<t>>)))
             \o << StructTagOf(<<>>) >>
             \o Each(inner, LAMBDA t : StructTagOf(<<t>>))

ArgumentSamples ==
    << Enum("Argument", "GasCoin", None) >>
    \o Each(U16Samples, LAMBDA n : Enum("Argument", "Input", Some(n)))
    \o Each(U16Samples, LAMBDA n : Enum("Argument", "Result", Some(n)))
    \o Each(<< <<0, 0>>, <<0, 300>>, <<300, 0>>, <<300, 300>> >>,
            LAMBDA p : Enum("Argument", "NestedResult", Some(p)))

ObjectArgSamples ==
    Each(U64Samples,
         LAMBDA n : Enum("ObjectArg", "ImmOrOwnedObject",
                         Some(<<AddressOf(1), n, PlaceholderDigest>>)))
    \o Each(<< TRUE, FALSE >>,
            LAMBDA m : Enum("ObjectArg", "SharedObject", Some(<<AddressOf(5), 1, m>>)))

CallArgSamples ==
    Each(<< <<>>, <<7>>, <<7, 8>>, [i \in 1..130 |-> 255] >>,
         LAMBDA b : Enum("CallArg", "Pure", Some(b)))
    \o Each(ObjectArgSamples, LAMBDA o : Enum("CallArg", "Object", Some(o)))

CommandSamples ==
    SampleCommands
    \o << Enum("Command", "MakeMoveVec", Some(<<None, Arguments(1)>>)) >>
    \o Each(TypeTagsOf(MaxTagDepth),
            LAMBDA t : Enum("Command", "MoveCall",
                            Some(<<AddressOf(2), <<109>>, <<>>, <<t>>, <<>> >>)))

TransactionExpirationSamples ==
    << Enum("TransactionExpiration", "None", None) >>
    \o Each(U64Samples, LAMBDA n : Enum("TransactionExpiration", "Epoch", Some(n)))

TransactionKindSamples ==
    Each(<< "ChangeEpoch", "Genesis", "ConsensusCommitPrologue" >>,
         LAMBDA n : Enum("TransactionKind", n, None))
    \o << Enum("TransactionKind", "ProgrammableTransaction", Some(<< <<>>, <<>> >>)) >>
    \o Each(SampleCommands,
            LAMBDA c : Enum("TransactionKind", "ProgrammableTransaction",
                            Some(<< <<Enum("CallArg", "Pure", Some(<<7>>))>>, <<c>> >>)))

TransactionDataSamples ==
    Each(TransactionKindSamples, LAMBDA k : faux_txdata(k, ClientGasPrice))

\* The typed values the codec is run on.
CodecSamples ==
    Each(TypeTagsOf(MaxTagDepth), LAMBDA v : <<EnumT("TypeTag"), v>>)
    \o Each(ArgumentSamples, LAMBDA v : <<EnumT("Argument"), v>>)
    \o Each(ObjectArgSamples, LAMBDA v : <<EnumT("ObjectArg"), v>>)
    \o Each(CallArgSamples, LAMBDA v : <<EnumT("CallArg"), v>>)
    \o Each(CommandSamples, LAMBDA v : <<EnumT("Command"), v>>)
    \o Each(TransactionExpirationSamples,
            LAMBDA v : <<EnumT("TransactionExpiration"), v>>)
    \o Each(TransactionKindSamples, LAMBDA v : <<EnumT("TransactionKind"), v>>)
    \o Each(TransactionDataSamples, LAMBDA v : <<EnumT("TransactionData"), v>>)

CodecInit ==
    /\ IdleSession
    /\ IdleTag
    /\ \E i \in 1..Len(CodecSamples) :
           c_type = CodecSamples[i][1] /\ c_val = CodecSamples[i][2]
    /\ c_bytes = <<>>
    /\ c_out = DecodeError
    /\ c_pc = "start"

\* x.serialize()
Serialize ==
    /\ c_pc = "start"
    /\ c_bytes' = serialize(c_type, c_val)
    /\ c_pc' = "encoded"
    /\ UNCHANGED <<c_type, c_val, c_out, session_vars, tag_vars>>

\* cls.deserialize(bytes)
Deserialize ==
    /\ c_pc = "encoded"
    /\ c_out' = deserialize(c_type, c_bytes)
    /\ c_pc' = "decoded"
    /\ UNCHANGED <<c_type, c_val, c_bytes, session_vars, tag_vars>>

CodecNext == Serialize \/ Deserialize

SpecCodec == CodecInit /\ [][CodecNext]_vars

(***************************************************************************)
(* Text: Python str operations on sequences of one-character strings.      *)
(***************************************************************************)
\* s.startswith(prefix)
startswith(s, prefix) ==
    Len(s) >= Len(prefix) /\ SubSeq(s, 1, Len(prefix)) = prefix

\* sub occurs in s at the 1-based position i.
OccursAt(s, sub, i) ==
    i >= 1 /\ i + Len(sub) - 1 <= Len(s) /\ SubSeq(s, i, i + Len(sub) - 1) = sub

\* s.find(sub, start): the first 0-based position >= start, or -1.
find(s, sub, start) ==
    LET hits == { i \in (start + 1)..Len(s) : OccursAt(s, sub, i) }
    IN  IF hits = {} THEN -1 ELSE Min(hits) - 1

\* s.rfind(sub): the last 0-based position, or -1.
rfind(s, sub) ==
    LET hits == { i \in 1..Len(s) : OccursAt(s, sub, i) }
    IN  IF hits = {} THEN -1 ELSE Max(hits) - 1

RECURSIVE count_from(_, _, _)
\* s.count(sub): the occurrences from start on that do not overlap.
count_from(s, sub, start) ==
    LET at == find(s, sub, start)
    IN  IF at = -1 THEN 0 ELSE 1 + count_from(s, sub, at + Len(sub))

count(s, sub) == count_from(s, sub, 0)

RECURSIVE split_from(_, _, _)
\* s.split(sep): the pieces between the occurrences of sep.
split_from(s, sep, start) ==
    LET at == find(s, sep, start)
    IN  IF at = -1 THEN << SubSeq(s, start + 1, Len(s)) >>
        ELSE << SubSeq(s, start + 1, at) >> \o split_from(s, sep, at + Len(sep))

split(s, sep) == split_from(s, sep, 0)

\* s[from : to] for 0 <= from, to.
slice(s, from, to) == SubSeq(s, from + 1, IF to > Len(s) THEN Len(s) ELSE to)

\* The characters of the names used as text.
Chars(name) ==
    CASE name = "Bool" -> <<"B", "o", "o", "l">>
      [] name = "U8" -> <<"U", "8">>
      [] name = "U16" -> <<"U", "1", "6">>
      [] name = "U32" -> <<"U", "3", "2">>
      [] name = "U64" -> <<"U", "6", "4">>
      [] name = "U128" -> <<"U", "1", "2", "8">>
      [] name = "U256" -> <<"U", "2", "5", "6">>
      [] name = "Address" -> <<"A", "d", "d", "r", "e", "s", "s">>
      [] name = "Signer" -> <<"S", "i", "g", "n", "e", "r">>
      [] name = "Vector" -> <<"V", "e", "c", "t", "o", "r">>
      [] name = "Struct" -> <<"S", "t", "r", "u", "c", "t">>
      [] name = "bool" -> <<"b", "o", "o", "l">>
      [] name = "u8" -> <<"u", "8">>
      [] name = "u16" -> <<"u", "1", "6">>
      [] name = "u32" -> <<"u", "3", "2">>
      [] name = "u64" -> <<"u", "6", "4">>
      [] name = "u128" -> <<"u", "1", "2", "8">>
      [] name = "u256" -> <<"u", "2", "5", "6">>
      [] name = "uU28" -> <<"u", "U", "2", "8">>
      [] name = "vector" -> <<"v", "e", "c", "t", "o", "r">>
      [] name = "::" -> <<":", ":">>
      [] name = "0x" -> <<"0", "x">>
      [] name = "0X" -> <<"0", "X">>
      [] name = "<" -> <<"<">>
      [] name = ">" -> <<">">>

(***************************************************************************)
(* Address.from_str, StructTag.from_type_str, TypeTag.type_tag_from.       *)
(***************************************************************************)
HexDigits ==
    << "0", "1", "2", "3", "4", "5", "6", "7", "8", "9", "a", "b", "c", "d", "e", "f" >>
UpperHexDigits == << "A", "B", "C", "D", "E", "F" >>

IsHexDigit(c) ==
    \/ \E i \in 1..Len(HexDigits) : HexDigits[i] = c
    \/ \E i \in 1..Len(UpperHexDigits) : UpperHexDigits[i] = c

HexValue(c) ==
    IF \E i \in 1..Len(HexDigits) : HexDigits[i] = c
    THEN (CHOOSE i \in 1..Len(HexDigits) : HexDigits[i] = c) - 1
    ELSE (CHOOSE i \in 1..Len(UpperHexDigits) : UpperHexDigits[i] = c) + 9

\* hexstring_to_list: the digits after an optional 0x, left-padded with zeros
\* to 32 bytes; text that is not hexadecimal is a value error.
hexstring_to_list(indata) ==
    LET digits == IF startswith(indata, Chars("0x")) \/ startswith(indata, Chars("0X"))
                  THEN SubSeq(indata, 3, Len(indata)) ELSE indata
        width == 2 * _ADDRESS_LENGTH
        nibble(i) == IF i <= width - Len(digits) THEN 0
                     ELSE HexValue(digits[i - (width - Len(digits))])
    IN  IF Len(digits) = 0 \/ Len(digits) > width
           \/ \E i \in 1..Len(digits) : ~IsHexDigit(digits[i])
        THEN Raised("ValueError")
        ELSE Returned([i \in 1.._ADDRESS_LENGTH |->
                           16 * nibble(2 * i - 1) + nibble(2 * i)])

\* Address.from_str(indata)
Address_from_str(indata) ==
    LET list == hexstring_to_list(indata)
    IN  IF list.raised # "" THEN list ELSE Returned(<< list.value[1] >>)

\* StructTag.from_type_str(type_str)
from_type_str(type_str) ==
    IF count(type_str, Chars("::")) = 2
    THEN LET split_type == split(type_str, Chars("::"))
             address == Address_from_str(split_type[1])
         IN  IF address.raised # "" THEN address
             ELSE Returned(<<address.value[1], split_type[2], split_type[3], <<>> >>)
    ELSE Raised("ValueError")

\* TypeTag._LCASE_SCALARS and TypeTag._UCASE_SCALARS
_LCASE_SCALARS ==
    << Chars("bool"), Chars("u8"), Chars("u16"), Chars("u32"), Chars("u64"),
       Chars("u128"), Chars("u256") >>
_UCASE_SCALARS ==
    << Chars("Bool"), Chars("U8"), Chars("U16"), Chars("U32"), Chars("U64"),
       Chars("uU28"), Chars("U256") >>

\* list.index(value), 1-based; the value is in the list.
list_index(list, value) ==
    Min({ i \in 1..Len(list) : list[i] = value })

\* cls(name) for a name given as text: the variant of that name, without a
\* payload; a name that is no variant is a type error.
TypeTag_named(name) ==
    LET hits == { i \in 1..Len(TypeTag_enums) : Chars(TypeTag_enums[i][1]) = name }
    IN  IF hits = {} THEN Raised("TypeError")
        ELSE Returned([index |-> Min(hits) - 1, value |-> None])

\* TypeTag.new_with_index_value(index, value)
new_with_index_value(index, value) == [index |-> index, value |-> Some(value)]

RECURSIVE wrap_in_vectors(_, _)
\* The for loop: vcount times, wrap the tag as the only element of a Vector.
wrap_in_vectors(vcount, inner_type_tag) ==
    IF vcount = 0 THEN inner_type_tag
    ELSE wrap_in_vectors(vcount - 1,
             new_with_index_value(get_index(TypeTag_enums, "Vector"), <<inner_type_tag>>))

RECURSIVE type_tag_from(_)
\* TypeTag.type_tag_from(value)
type_tag_from(value) ==
    IF \E i \in 1..Len(_LCASE_SCALARS) : _LCASE_SCALARS[i] = value
    THEN TypeTag_named(_UCASE_SCALARS[list_index(_LCASE_SCALARS, value)])
    ELSE IF \E i \in 1..Len(_UCASE_SCALARS) : _UCASE_SCALARS[i] = value
    THEN TypeTag_named(_UCASE_SCALARS[list_index(_UCASE_SCALARS, value)])
    ELSE IF Len(split(value, Chars("::"))) > 2
    THEN LET struct == from_type_str(value)
         IN  IF struct.raised # "" THEN struct
             ELSE Returned(new_with_index_value(get_index(TypeTag_enums, "Struct"),
                                                struct.value[1]))
    ELSE IF startswith(value, Chars("0x")) \/ startswith(value, Chars("0X"))
    THEN TypeTag_named(Chars("Address"))
    ELSE LET vcount == count(value, Chars("vector"))
         IN  IF vcount > 0
             THEN IF find(value, Chars(">"), 0) = -1 THEN Raised("ValueError")
                  ELSE LET inner_type_tag ==
                               type_tag_from(slice(value, rfind(value, Chars("<")) + 1,
                                                   find(value, Chars(">"), 0)))
                       IN  IF inner_type_tag.raised # "" THEN inner_type_tag
                           ELSE Returned(wrap_in_vectors(vcount, inner_type_tag.value[1]))
             ELSE Raised("ValueError")

(***************************************************************************)
(* SpecTag: a type string is parsed.                                       *)
(***************************************************************************)
\* How many vector<...> wrappers the sampled type strings have at most.
\* cls._enums[index]: Python list indexing, where a negative index counts
\* from the end and an index outside -len .. len-1 is an IndexError.
list_getitem(list, index) ==
    IF index >= 0 /\ index < Len(list) THEN Returned(list[index + 1])
    ELSE IF index < 0 /\ index >= 0 - Len(list) THEN Returned(list[Len(list) + index + 1])
    ELSE Raised("IndexError")

\* TransactionData.variant_for_index(index)
variant_for_index(index) ==
    IF index > Len(TransactionData_enums) THEN Raised("IndexError")
    ELSE list_getitem(TransactionData_enums, index)

MaxVectorDepth == 2
MaxIndex == 3
IndexSamples == (0 - MaxIndex)..MaxIndex

\* The scalar kinds and the type strings without a wrapper.
ScalarKinds == { "Bool", "U8", "U16", "U32", "U64", "U128", "U256" }
LowerName(kind) ==
    CASE kind = "Bool" -> "bool" [] kind = "U8" -> "u8" [] kind = "U16" -> "u16"
      [] kind = "U32" -> "u32" [] kind = "U64" -> "u64" [] kind = "U128" -> "u128"
      [] kind = "U256" -> "u256"

BaseStrings ==
    { Chars(k) : k \in ScalarKinds }
    \cup { Chars(LowerName(k)) : k \in ScalarKinds }
    \cup { <<"0", "x", "2">>, <<"0", "X", "2">>,
           <<"0", "x", "2", ":", ":", "s", "u", "i", ":", ":", "S", "U", "I">>,
           <<"0", "x", "a", ":", ":", "c", "o", "i", "n", ":", ":", "C", "o", "i", "n">>,
           <<"0", "x", "2", ":", ":", "c", "o", "i", "n">>,
           <<"a", ":", ":", "b", ":", ":", "c", ":", ":", "d">>,
           <<"a", "d", "d", "r", "e", "s", "s">> }

RECURSIVE Wrapped(_, _)
\* vector< ... vector<base> ... > with n wrappers.
Wrapped(n, base) ==
    IF n = 0 THEN base
    ELSE Chars("vector") \o Chars("<") \o Wrapped(n - 1, base) \o Chars(">")

TagStrings == { Wrapped(n, b) : n \in 0..MaxVectorDepth, b \in BaseStrings }

TagInit ==
    /\ IdleSession
    /\ IdleCodec
    /\ t_in \in TagStrings
    /\ t_out = None
    /\ t_pc = "start"
    /\ v_call = None

\* A call of TypeTag.type_tag_from(t_in).
TypeTagFrom ==
    /\ t_pc = "start"
    /\ t_out' = Some(type_tag_from(t_in))
    /\ t_pc' = "parsed"
    /\ UNCHANGED <<t_in, v_call, session_vars, codec_vars>>

\* A call of TransactionData.variant_for_index(index).
VariantForIndex(index) ==
    /\ v_call = None
    /\ v_call' = Some(<<index, variant_for_index(index)>>)
    /\ UNCHANGED <<t_in, t_out, t_pc, session_vars, codec_vars>>

TagNext ==
    \/ TypeTagFrom
    \/ \E index \in IndexSamples : VariantForIndex(index)

SpecTag == TagInit /\ [][TagNext]_vars

(***************************************************************************)
(* Properties of verify_transaction, stated on the state after a call.     *)
(***************************************************************************)
\* The last operation was verify_transaction / it returned its pair.
Verified == op[1] = "verify_transaction"
VerifyReturned == Verified /\ ret.raised = ""

\* The second element of the returned pair, and its keys and values.
Violations == ret.value[1][2]
HasKey(name) == Violations # None /\ \E p \in Violations[1] : p[1] = name
KeyValue(name) == (CHOOSE p \in Violations[1] : p[1] = name)[2]
Keys == IF Violations = None THEN {} ELSE { p[1] : p \in Violations[1] }

\* What the claims say about a session, from its inputs and commands alone.
PureLengths ==
    { Len(inputs[i].key.value[1]) :
        i \in { j \in 1..Len(inputs) : inputs[j].key.index = 1 } }
LargestPure == IF PureLengths = {} THEN 0 ELSE Max(PureLengths)
CountKeys(index_set) ==
    Cardinality({ i \in 1..Len(inputs) : inputs[i].key.index \in index_set })
CountMoveCalls == Cardinality({ i \in 1..Len(commands) : commands[i].index = 0 })
\* Object inputs only (variant 0 of BuilderArg), plus MoveCall commands.
ObjectsPlusMoveCalls == CountKeys({0}) + CountMoveCalls
\* Every input that is not Pure (variants 0 and 2), plus MoveCall commands.
NonPurePlusMoveCalls == CountKeys({0, 2}) + CountMoveCalls
\* Argument count by variant: the position of the counted field in the struct.
ClaimedArgs(c) ==
    LET v == c.value[1]
    IN  CASE c.index = 0 -> Len(v[5])    \* MoveCall: Arguments
          [] c.index = 1 -> Len(v[1])    \* TransferObjects: Objects
          [] c.index = 2 -> Len(v[2])    \* SplitCoin: Amount
          [] c.index = 3 -> Len(v[2])    \* MergeCoins: FromCoins
          [] c.index = 4 -> Len(v[1])    \* Publish: Modules
          [] c.index = 5 -> Len(v[2])    \* MakeMoveVec: Vector
          [] c.index = 6 -> Len(v[1])    \* Upgrade: Modules
ClaimedTypeArgs(c) == IF c.index = 0 THEN Len(c.value[1][4]) ELSE 0
ArgOffenders ==
    { i \in 1..Len(commands) : ClaimedArgs(commands[i]) > constraints.max_arguments }
TypeArgOffenders ==
    { i \in 1..Len(commands) :
        ClaimedTypeArgs(commands[i]) > constraints.max_type_arguments }
LastArgs == IF ArgOffenders = {} THEN 0 ELSE ClaimedArgs(commands[Max(ArgOffenders)])
LastTypeArgs ==
    IF TypeArgOffenders = {} THEN 0
    ELSE ClaimedTypeArgs(commands[Max(TypeArgOffenders)])
RECURSIVE SumArgs(_)
SumArgs(i) == IF i = 0 THEN 0 ELSE ClaimedArgs(commands[i]) + SumArgs(i - 1)
TotalArgs == SumArgs(Len(commands))
\* The bytes measured: the caller's when the call took them, else the placeholder's.
MeasuredSize ==
    Len(ser_kind_used(op[3], raw_kind, current_gas_price))

\* The observed metric of each limit.
Metric(name) ==
    CASE name = "max_pure_argument_size" -> LargestPure
      [] name = "max_input_objects" -> NonPurePlusMoveCalls
      [] name = "max_arguments" -> LastArgs
      [] name = "max_type_arguments" -> LastTypeArgs
      [] name = "max_num_transferred_move_object_ids" -> TotalArgs
      [] name = "max_programmable_tx_commands" -> Len(commands)
      [] name = "max_tx_size_bytes" -> MeasuredSize

\* C1: verify_transaction never raises because of a limit violation: whatever
\* the inputs, commands and constraints, the call returns its pair.
C1_NeverRaises == Verified => ret.raised = ""

\* Every metric verify_transaction computes is strictly below its maximum.
AllStrictlyBelow ==
    /\ LargestPure < constraints.max_pure_argument_size
    /\ NonPurePlusMoveCalls < constraints.max_input_objects
    /\ \A i \in 1..Len(commands) :
           /\ ClaimedArgs(commands[i]) < constraints.max_arguments
           /\ ClaimedTypeArgs(commands[i]) < constraints.max_type_arguments
    /\ TotalArgs < constraints.max_num_transferred_move_object_ids
    /\ Len(commands) < constraints.max_programmable_tx_commands
    /\ MeasuredSize < constraints.max_tx_size_bytes

\* C2: when every metric of a call is strictly below its configured maximum,
\* the call returns and the second element of its result is None.
C2_AllBelowIsNone ==
    (Verified /\ AllStrictlyBelow) => (ret.raised = "" /\ Violations = None)

\* C2 witness: a call on a session with a Pure input and a command, all below.
C2_Witness ==
    /\ Verified /\ AllStrictlyBelow
    /\ Len(inputs) > 0 /\ Len(commands) > 0 /\ LargestPure > 0
    /\ Violations = None

\* C3 as stated: a key is in the returned record only if its metric exceeded
\* the limit, and then holds the metric.
C3_OnlyExceeded ==
    VerifyReturned =>
        \A n \in Keys : Metric(n) > constraints[n] /\ KeyValue(n) = Metric(n)

\* C3 amended: a key is in the returned record only if its metric exceeded the
\* limit, or reached it in the case of max_pure_argument_size, and then holds
\* the metric; a limit neither exceeded nor (for the pure size) reached is absent.
C3_OnlyExceededOrPureReached ==
    VerifyReturned =>
        \A n \in Keys :
            /\ n \in LimitNames
            /\ \/ Metric(n) > constraints[n]
               \/ n = "max_pure_argument_size" /\ Metric(n) = constraints[n]
            /\ KeyValue(n) = Metric(n)

\* C3 witness: a returned record with a key for an exceeded limit and one for
\* the pure size that only reached its limit.
C3_Witness ==
    /\ VerifyReturned
    /\ HasKey("max_pure_argument_size")
    /\ LargestPure = constraints.max_pure_argument_size
    /\ \E n \in Keys : n # "max_pure_argument_size" /\ Metric(n) > constraints[n]
    /\ \E n \in LimitNames : n \notin Keys

\* C4: the pure size metric is the largest single Pure length, and
\* max_pure_argument_size is in the returned record, holding that maximum,
\* exactly when the maximum is greater than or equal to the limit.
C4_PureIsLargestSingle ==
    VerifyReturned =>
        /\ HasKey("max_pure_argument_size")
               <=> LargestPure >= constraints.max_pure_argument_size
        /\ HasKey("max_pure_argument_size")
               => KeyValue("max_pure_argument_size") = LargestPure

\* C4 witness: two Pure inputs whose lengths add up to the limit while the
\* largest is below it, and the record has no pure size key.
C4_Witness ==
    /\ VerifyReturned
    /\ Cardinality({ i \in 1..Len(inputs) : inputs[i].key.index = 1 }) = 2
    /\ LargestPure < constraints.max_pure_argument_size
    /\ 2 * LargestPure >= constraints.max_pure_argument_size
    /\ ~HasKey("max_pure_argument_size")

\* C5: the object-input count is the number of Object inputs plus the number
\* of MoveCall commands, and max_input_objects is in the returned record,
\* holding that count, exactly when the count is greater than the limit.
C5_ObjectsPlusMoveCalls ==
    VerifyReturned =>
        /\ HasKey("max_input_objects")
               <=> ObjectsPlusMoveCalls > constraints.max_input_objects
        /\ HasKey("max_input_objects")
               => KeyValue("max_input_objects") = ObjectsPlusMoveCalls

\* C10: max_arguments (max_type_arguments) is in the returned record exactly
\* when some command's argument (type-argument) count, taken by variant,
\* exceeds the limit, and then holds the count of the last such command in
\* sequence order; either key is set whether or not the other is.
C10_LastOffenderWins ==
    VerifyReturned =>
        /\ HasKey("max_arguments") <=> ArgOffenders # {}
        /\ HasKey("max_arguments") => KeyValue("max_arguments") = LastArgs
        /\ HasKey("max_type_arguments") <=> TypeArgOffenders # {}
        /\ HasKey("max_type_arguments") => KeyValue("max_type_arguments") = LastTypeArgs

\* C10 witness: two commands exceed max_arguments, the first by more than the
\* last, the record holds the last one's count, and max_type_arguments is absent.
C10_Witness ==
    /\ VerifyReturned
    /\ Cardinality(ArgOffenders) = 2
    /\ ClaimedArgs(commands[1]) > ClaimedArgs(commands[2])
    /\ HasKey("max_arguments") /\ KeyValue("max_arguments") = ClaimedArgs(commands[2])
    /\ ~HasKey("max_type_arguments")

(***************************************************************************)
(* Properties of add_input, stated on the step of a call.                  *)
(***************************************************************************)
\* The index of the Argument.Input an add_input call returned.
ReturnedIndex(r) == r.value[1].value[1]

\* A Pure input with the content of value is stored in d.
PureStored(d, value) ==
    \E i \in 1..Len(d) : d[i].key.index = 1 /\ d[i].key.value[1] = value

\* C6: with input compression enabled, add_input returns an already-used
\* index if and only if the value is Pure and a stored Pure input has its
\* content, and then the stored inputs do not change; an Object or a
\* ForcedNonUniquePure value gets the index equal to the previous number of
\* stored inputs, and is stored there, whatever the content of the others.
C6_CompressedAdd ==
    [][ (op'[1] = "add_input" /\ compress_inputs) =>
            LET name == op'[2]
                value == op'[3]
                index == ReturnedIndex(ret')
                duplicate == name = "Pure" /\ PureStored(inputs, value)
            IN  /\ index < Len(inputs) <=> duplicate
                /\ duplicate =>
                       /\ inputs' = inputs
                       /\ inputs[index + 1].key.index = 1
                       /\ inputs[index + 1].key.value[1] = value
                /\ ~duplicate =>
                       /\ index = Len(inputs)
                       /\ Len(inputs') = Len(inputs) + 1
                       /\ SubSeq(inputs', 1, Len(inputs)) = inputs
                       /\ inputs'[index + 1].arg = CallArgFor(name, value) ]_vars

\* C6 witness: compression on, two stored inputs, and the last add_input of a
\* Pure value returned the first slot; an Object and a ForcedNonUniquePure
\* value with the content of a stored one sit in slots of their own.
C6_Witness ==
    /\ compress_inputs
    /\ op[1] = "add_input" /\ op[2] = "Pure"
    /\ Len(inputs) = 2 /\ ReturnedIndex(ret) = 0
    /\ inputs[2].key.index = 2
    /\ inputs[2].key.value = inputs[1].key.value

(***************************************************************************)
(* Properties of the codec.                                                *)
(***************************************************************************)
\* C7: round trip.  Decoding the encoding of a schema value yields the value
\* again: the same variant, the one whose declaration position is the encoded
\* variant index, and the same payload.
C7_RoundTrip ==
    /\ c_pc = "decoded" =>
           /\ c_out.ok
           /\ c_out.val[1].index = c_val.index
           /\ c_out.val[1].value = c_val.value
    /\ c_pc \in { "encoded", "decoded" } =>
           /\ c_bytes # <<>>
           /\ c_bytes[1] = c_val.index
           /\ c_val.index = get_index(EnumsOf(c_type[2]),
                                      EnumsOf(c_type[2])[c_val.index + 1][1])

\* C7 witness: a MoveCall command whose type argument is a Vector of a Struct
\* TypeTag came back from its bytes.
C7_Witness ==
    /\ c_pc = "decoded"
    /\ c_type = EnumT("Command") /\ c_val.index = 0
    /\ Len(c_val.value[1][4]) = 1
    /\ c_val.value[1][4][1].index = 6
    /\ c_val.value[1][4][1].value[1][1].index = 7
    /\ c_out.val[1] = c_val

(***************************************************************************)
(* Properties of TypeTag.type_tag_from.                                    *)
(***************************************************************************)
\* The result of the call, once made.
Parsed == t_pc = "parsed"
TagResult == t_out[1]

\* The result of wrapping a parse result in n Vector variants: an error stays.
RECURSIVE VectorsOf(_, _)
VectorsOf(n, tag) ==
    IF n = 0 THEN tag
    ELSE [index |-> 6, value |-> Some(<< VectorsOf(n - 1, tag) >>)]

\* C8: for every scalar kind, the lower-case and the capitalised name both
\* parse, and both yield the TypeTag variant of that kind.
C8_ScalarNamesAnyCase ==
    Parsed =>
        \A k \in ScalarKinds :
            t_in \in { Chars(k), Chars(LowerName(k)) } =>
                TagResult = Returned(Enum("TypeTag", k, None))

\* C9: a string with n >= 1 vector wrappers around a type string parses to n
\* Vector variants around what the type string parses to by itself (scalar,
\* struct or address literal), and fails the way it does when that fails.
C9_VectorWrapsInner ==
    Parsed =>
        \A n \in 1..MaxVectorDepth : \A b \in BaseStrings :
            t_in = Wrapped(n, b) =>
                LET alone == type_tag_from(b)
                IN  IF alone.raised # "" THEN TagResult.raised # ""
                    ELSE TagResult = Returned(VectorsOf(n, alone.value[1]))

\* C11: the command count is compared with max_programmable_tx_commands: with
\* more commands than the limit the call returns a record holding
\* max_programmable_tx_commands = the number of commands; otherwise the key
\* is absent.
C11_CommandCountReported ==
    Verified =>
        IF Len(commands) > constraints.max_programmable_tx_commands
        THEN /\ VerifyReturned
             /\ HasKey("max_programmable_tx_commands")
             /\ KeyValue("max_programmable_tx_commands") = Len(commands)
        ELSE VerifyReturned /\ ~HasKey("max_programmable_tx_commands")

\* The byte size by the caller's view: the length of the bytes handed in
\* whenever bytes were handed in, else the placeholder envelope's length.
SuppliedOrPlaceholderSize ==
    IF op[3] = None
    THEN Len(serialize(EnumT("TransactionData"), faux_txdata(raw_kind, current_gas_price)))
    ELSE Len(op[3][1])

\* C12: the byte-size metric is the length of the supplied bytes whenever
\* bytes were supplied, whatever their length, and the placeholder's length
\* only when none were; max_tx_size_bytes is flagged with that length exactly
\* when it is greater than the limit.
C12_SizeOfSuppliedBytes ==
    VerifyReturned =>
        /\ HasKey("max_tx_size_bytes")
               <=> SuppliedOrPlaceholderSize > constraints.max_tx_size_bytes
        /\ HasKey("max_tx_size_bytes")
               => KeyValue("max_tx_size_bytes") = SuppliedOrPlaceholderSize

\* The variant_for_index call made, its index and its outcome.
VariantCalled == v_call # None
VariantIndex == v_call[1][1]
VariantOutcome == v_call[1][2]

\* C13: variant_for_index fails with an index error for every index outside
\* 0 .. number of variants - 1 (an index equal to the number of variants and
\* every negative index included), and returns the (name, type) pair declared
\* at that position for every index inside the range.
C13_OutsideRangeIsIndexError ==
    VariantCalled =>
        IF VariantIndex \in 0..(Len(TransactionData_enums) - 1)
        THEN VariantOutcome = Returned(TransactionData_enums[VariantIndex + 1])
        ELSE VariantOutcome.raised = "IndexError"

\* C14: verify_transaction is read-only and repeatable: a call leaves the
\* constraints table, the builder's inputs, its commands and its command
\* frequency counter unchanged; a call that returns hands back the session's
\* constraints as the first element; and a call that follows a call with the
\* same argument on the same session has the same outcome.
C14_ReadOnlyRepeatable ==
    [][ op'[1] = "verify_transaction" =>
            /\ UNCHANGED <<constraints, inputs, commands, command_frequency>>
            /\ ret'.raised = "" => ret'.value[1][1] = constraints
            /\ (op[1] = "verify_transaction" /\ op[3] = op'[3]) => ret' = ret ]_vars

\* A call on a builder holding an input and a command has returned the
\* session's constraints together with violations.
C14_Witness ==
    /\ VerifyReturned
    /\ Violations # None
    /\ ret.value[1][1] = constraints
    /\ Len(inputs) > 0
    /\ Len(commands) > 0

====
